---- MODULE Spec2Model ----
(***************************************************************************)
(* Model of server/server.py of greplin-exception-catcher: the report      *)
(* queue (ReportPage, ReportWorker), the aggregation of reports into       *)
(* LoggedErrorV2 groups (putException, getAggregatedError), the memcache   *)
(* snapshot of a group, and ResolvePage.                                   *)
(*                                                                         *)
(* Text is a sequence of character codes (ASCII).  Every datastore or      *)
(* memcache call of ReportWorker is one atomic step, so that concurrent    *)
(* workers interleave between their calls.                                 *)
(***************************************************************************)
EXTENDS Integers, Sequences, FiniteSets, TLC

VARIABLES
  sequential,   \* TRUE: handlers run to completion one at a time
  inputs,       \* the report payloads clients may post in this run
  queue,        \* datastore, kind Queue: key -> payload
  taskq,        \* the push queue: keys of the tasks not yet acknowledged
  posted,       \* number of payloads ReportPage accepted (the last Queue key)
  fresh,        \* keys of the tasks not yet delivered for the first time
  projects,     \* datastore, kind Project: the key names
  errors,       \* datastore, kind LoggedErrorV2: id -> entity
  instances,    \* datastore, kind LoggedErrorInstanceV2, in order of put
  cache,        \* memcache: key -> serialized LoggedErrorV2
  pc,           \* per ReportWorker request: the call it is about to make
  loc,          \* per ReportWorker request: its local variables
  deliveries,   \* number of putException calls started
  resolves,     \* number of ResolvePage requests served
  calls,        \* history: the putException calls, in order of start
  written,      \* history: Queue keys whose instance.put() has completed
  skipped,      \* history: Queue keys delivered after their record was deleted
  response      \* what the last ListPage or StatPage request answered

vars == <<sequential, inputs, queue, taskq, posted, fresh, projects, errors,
          instances, cache, pc, loc, deliveries, resolves, calls, written,
          skipped, response>>

----------------------------------------------------------------------------
(* Bounds of the model. *)

MaxReports == 2
MaxDeliveries == 3
MaxSeqReports == 4
MaxSeqDeliveries == 4
MaxResolves == 1
MaxQueryReports == 3
MaxQueryDeliveries == 3
MaxLiveReports == 2

Workers == 1..2

(* Program constants. *)

\* Level.ERROR, the default of LoggedErrorV2.level
LevelERROR == 30
\* exceptionType[:500]
TypeLimit == 500
\* message[:300]
MessageLimit == 300

\* ListPage: getErrors(filters, limit = 51, ...)
ListLimit == 51
\* ListPage: offset = page * 50, errors[:50]
PageSize == 50
\* timedelta(minutes = 1), in the seconds of the timestamps
SecondsPerMinute == 60

\* CONFIG['secretKey']
SECRET_KEY == "secret"

----------------------------------------------------------------------------
(* Text helpers. *)

Range(s) == {s[i] : i \in 1..Len(s)}

\* s[:n]
Take(s, n) == SubSeq(s, 1, IF Len(s) < n THEN Len(s) ELSE n)

\* s.replace('\n', ' ')
ReplaceNewlines(s) == [i \in 1..Len(s) |-> IF s[i] = 10 THEN 32 ELSE s[i]]

IsDigit(c) == c \in 48..57

\* int(text): raises ValueError unless the text is a decimal numeral
IsIntText(s) == Len(s) > 0 /\ \A i \in 1..Len(s) : IsDigit(s[i])

RECURSIVE ParseInt(_)
ParseInt(s) ==
  IF s = <<>> THEN 0
  ELSE 10 * ParseInt(SubSeq(s, 1, Len(s) - 1)) + (s[Len(s)] - 48)

\* str(n) of a natural number
RECURSIVE Str(_)
Str(n) == IF n < 10 THEN <<48 + n>> ELSE Str(n \div 10) \o <<48 + (n % 10)>>

\* ' '.join(texts)
RECURSIVE Join(_)
Join(texts) ==
  IF texts = <<>> THEN <<>>
  ELSE IF Len(texts) = 1 THEN texts[1]
  ELSE texts[1] \o <<32>> \o Join(Tail(texts))

IsSpace(c) == c \in {9, 10, 13, 32}

\* text.split(): the maximal runs of characters that are no whitespace
RECURSIVE Split(_)
Split(text) ==
  IF text = <<>> THEN <<>>
  ELSE IF IsSpace(text[1]) THEN Split(Tail(text))
  ELSE LET n == CHOOSE i \in 1..Len(text) :
                  /\ \A j \in 1..i : ~IsSpace(text[j])
                  /\ i = Len(text) \/ IsSpace(text[i + 1])
       IN <<SubSeq(text, 1, n)>> \o Split(SubSeq(text, n + 1, Len(text)))

\* s[a:b]
Slice(s, a, b) == SubSeq(s, a + 1, IF Len(s) < b THEN Len(s) ELSE b)

\* backtrace.normalizeBacktrace: a pure function that maps backtraces
\* differing only in non-identifying detail to the same text.  The detail
\* is modelled as the digits of the text (line numbers, addresses).
normalizeBacktrace(text) == SelectSeq(text, LAMBDA c : ~IsDigit(c))

\* hashlib.md5 over a byte string, modelled as an injective encoding of the
\* bytes: two inputs get the same digest only when they are the same bytes.
RECURSIVE md5(_)
md5(bytes) ==
  IF bytes = <<>> THEN 0 ELSE (bytes[1] + 1) + 128 * md5(Tail(bytes))

\* hasher.update(type); hasher.update(normalizeBacktrace(backtrace)):
\* the digest of the two byte strings one after the other.
generateHash(exceptionType, backtraceText) ==
  md5(exceptionType \o normalizeBacktrace(backtraceText))

----------------------------------------------------------------------------
(* Report payloads: the JSON object a client posts.  keys is the set of    *)
(* keys the object has; timestamp.num says whether the JSON value is a     *)
(* number; context is a JSON object with an optional userId text.          *)

RequiredKeys ==
  {"backtrace", "environment", "message", "project", "serverName",
   "timestamp", "type"}

NoContext == [keys |-> {}, userId |-> <<>>]
\* {"userId": "7"}
UserContext == [keys |-> {"userId"}, userId |-> <<55>>]
\* {"userId": "x"}
BadUserContext == [keys |-> {"userId"}, userId |-> <<120>>]

Payload(project, type, backtraceText, environment, server, timestamp, message, context) ==
  [keys |-> RequiredKeys, project |-> project, type |-> type,
   backtrace |-> backtraceText, environment |-> environment,
   serverName |-> server, timestamp |-> [num |-> TRUE, val |-> timestamp],
   message |-> message, context |-> context]

\* a payload without its "backtrace" key
MissingKeyPayload ==
  [Payload("P", <<69>>, <<>>, "prod", "web1", 1, <<>>, NoContext)
     EXCEPT !.keys = RequiredKeys \ {"backtrace"}]

\* a payload whose "timestamp" is not a number
BadTimestampPayload ==
  [Payload("P", <<69>>, <<97, 98>>, "prod", "web1", 0, <<>>, NoContext)
     EXCEPT !.timestamp = [num |-> FALSE, val |-> 0]]

\* Exception types "E", "Ea" and backtraces "ab", "a1b", "b":
\* "ab" and "a1b" normalize to the same text; ("E", "ab") and ("Ea", "b")
\* are different errors whose hashed bytes "Eab" are the same.
TypeE == <<69>>
TypeEa == <<69, 97>>
TraceAB == <<97, 98>>
TraceA1B == <<97, 49, 98>>
TraceB == <<98>>

\* messages "m", "n"
MessageOf(backtraceText) == IF backtraceText = TraceA1B THEN <<110>> ELSE <<109>>

\* each server runs in one environment
Hosts == {<<"prod", "web1">>, <<"staging", "web2">>}

Timestamps == 1..3

\* Inputs of the concurrent runs: one error reported from any host at any
\* of two times, and once with a user id that is no numeral.
ConcurrentInputs ==
  {Payload("P", TypeE, TraceAB, h[1], h[2], t, MessageOf(TraceAB), NoContext) :
     h \in Hosts, t \in 1..2}
  \cup {Payload("P", TypeE, TraceAB, "prod", "web1", 1, MessageOf(TraceAB),
                BadUserContext)}

\* Inputs of the sequential runs, one family per run.
\* Two projects and three errors, two of them with the same hash.
FingerprintInputs ==
  {Payload(p, s[1], s[2], "prod", "web1", 1, MessageOf(s[2]), NoContext) :
     p \in {"P", "Q"},
     s \in {<<TypeE, TraceAB>>, <<TypeE, TraceA1B>>, <<TypeEa, TraceB>>}}
  \cup {Payload("Q", TypeE, TraceAB, "prod", "web1", 1, MessageOf(TraceAB),
                BadUserContext),
        BadTimestampPayload}

\* One error, two backtrace texts, any timestamp.
TimestampInputs ==
  {Payload("P", TypeE, b, "prod", "web1", t, MessageOf(b), UserContext) :
     b \in {TraceAB, TraceA1B}, t \in Timestamps}
  \cup {Payload("P", TypeE, TraceAB, "prod", "web1", 1, MessageOf(TraceAB),
                BadUserContext),
        MissingKeyPayload}

\* The clock of the runs with the pages that read: datetime.now(), in
\* seconds.  The reports of these runs are 90, 30 and 5 minutes old.
\* Inputs of the runs with fair scheduling: a report of an error and a
\* report without its "backtrace" key.
LiveInputs ==
  {Payload("P", TypeE, TraceAB, "prod", "web1", 1, MessageOf(TraceAB), UserContext),
   MissingKeyPayload}

Clock == {6000}

QueryTimestamps == {600, 4200, 5700}

\* Inputs of the runs with the pages that read: an error of project P
\* from any host at any of three times, a second one from either host, the
\* user known on "prod" only, one error of project Q, and one report with a
\* user id that is no numeral.
QueryInputs ==
  {Payload("P", TypeE, TraceAB, h[1], h[2], t, MessageOf(TraceAB),
           IF h[1] = "prod" THEN UserContext ELSE NoContext) :
     h \in Hosts, t \in QueryTimestamps}
  \cup {Payload("P", TypeE, TraceB, "staging", "web2", 4200, MessageOf(TraceB),
                NoContext),
        Payload("P", TypeE, TraceB, "prod", "web1", 5700, MessageOf(TraceB),
                UserContext),
        Payload("Q", TypeE, TraceAB, "prod", "web1", 600, MessageOf(TraceAB),
                UserContext),
        Payload("P", TypeE, TraceAB, "prod", "web1", 600, MessageOf(TraceAB),
                BadUserContext)}

----------------------------------------------------------------------------
(* Entities. *)

\* a LoggedErrorV2 that was never assigned (error = None)
NoError ==
  [project |-> "", backtrace |-> <<>>, type |-> <<>>, hash |-> 0,
   active |-> FALSE, count |-> 0, level |-> LevelERROR,
   firstOccurrence |-> 0, lastOccurrence |-> 0, lastMessage |-> <<>>,
   environments |-> <<>>, servers |-> <<>>]

\* putException, the branch "if not error": the new LoggedErrorV2
NewError(exception, errorHash) ==
  [project |-> exception.project,
   backtrace |-> exception.backtrace,
   type |-> ReplaceNewlines(Take(ReplaceNewlines(exception.type), TypeLimit)),
   hash |-> errorHash,
   active |-> TRUE,
   count |-> 1,
   level |-> LevelERROR,
   firstOccurrence |-> exception.timestamp.val,
   lastOccurrence |-> exception.timestamp.val,
   lastMessage |-> Take(exception.message, MessageLimit),
   environments |-> <<exception.environment>>,
   servers |-> <<exception.serverName>>]

Min(a, b) == IF a < b THEN a ELSE b

AppendIfAbsent(list, x) == IF x \in Range(list) THEN list ELSE Append(list, x)

\* The mutant of MergeUpdate: both timestamp comparisons the wrong way round.
MergeUpdateFlipped(error, exception) ==
  LET timestamp == exception.timestamp.val
      newer == timestamp < error.lastOccurrence
  IN [error EXCEPT
        !.count = error.count + 1,
        !.firstOccurrence = IF timestamp > error.firstOccurrence
                            THEN timestamp ELSE error.firstOccurrence,
        !.lastOccurrence = IF newer THEN timestamp ELSE error.lastOccurrence,
        !.backtrace = IF newer THEN exception.backtrace ELSE error.backtrace,
        !.lastMessage = IF newer THEN Take(exception.message, MessageLimit)
                        ELSE error.lastMessage,
        !.environments = AppendIfAbsent(error.environments, exception.environment),
        !.servers = AppendIfAbsent(error.servers, exception.serverName)]

\* getAggregatedError, the branch "if error": the update of the matched
\* entity (a copy read from memcache or from the datastore) before its put.
MergeUpdate(error, exception) ==
  LET timestamp == exception.timestamp.val
      newer == timestamp > error.lastOccurrence
  IN [error EXCEPT
        !.count = error.count + 1,
        !.firstOccurrence = Min(error.firstOccurrence, timestamp),
        !.lastOccurrence = IF newer THEN timestamp ELSE error.lastOccurrence,
        !.backtrace = IF newer THEN exception.backtrace ELSE error.backtrace,
        !.lastMessage = IF newer THEN Take(exception.message, MessageLimit)
                        ELSE error.lastMessage,
        !.environments = AppendIfAbsent(error.environments, exception.environment),
        !.servers = AppendIfAbsent(error.servers, exception.serverName)]

\* putException: the LoggedErrorInstanceV2 of the report, parent = error.
\* affectedUser is the set holding int(context['userId']) when there is one.
NewInstance(exception, parent) ==
  [parent |-> parent,
   environment |-> exception.environment,
   date |-> exception.timestamp.val,
   message |-> exception.message,
   server |-> exception.serverName,
   context |-> exception.context,
   affectedUser |-> IF "userId" \in exception.context.keys
                    THEN {ParseInt(exception.context.userId)} ELSE {}]

\* The report fails before any datastore call: a required key is missing
\* (KeyError) or datetime.fromtimestamp rejects the timestamp.
FailsEarly(exception) ==
  \/ ~(RequiredKeys \subseteq exception.keys)
  \/ ~exception.timestamp.num

\* int(context['userId']) raises ValueError
FailsOnUserId(exception) ==
  /\ exception.context.keys # {}
  /\ "userId" \in exception.context.keys
  /\ ~IsIntText(exception.context.userId)

----------------------------------------------------------------------------
(* memcache keys. *)

\* str() of a Project entity.  db.Model defines no __str__, so the text is
\* the default "<Project object at 0x...>", which names the address of the
\* object getProject returned for this request, not the project.
ProjectReprs == <<"<Project object at 0x1>", "<Project object at 0x2>">>

\* getAggregatedError: key = '%s|%s' % (project, errorHash), project being
\* the Project entity
AggregateKey(projectRepr, errorHash) == <<projectRepr, errorHash>>

\* ResolvePage: key = '%s|%s' % (error.parent_key().name(), error.hash)
ResolveKey(error) == <<error.project, error.hash>>

\* db.model_to_protobuf(error): the entity with its key
Serialized(gid, error) == [gid |-> gid, error |-> error]

----------------------------------------------------------------------------
(* The state machine. *)

\* no page has answered since the last report, delivery or resolve
NoResponse ==
  [page |-> "", status |-> 0,
   \* ListPage: the request, context['errors'] and context['hasMore']
   request |-> [keys |-> {}, project |-> "", environment |-> "", server |-> "",
                affectedUser |-> <<>>, page |-> 0],
   views |-> <<>>, hasMore |-> FALSE,
   \* StatPage: the request, the clock and the text written
   project |-> "", minutes |-> <<>>, now |-> 0, body |-> <<>>]

NoPayload == Payload("", <<>>, <<>>, "", "", 0, <<>>, NoContext)

\* the local variables of a request that is not running
IdleLoc ==
  [task |-> 0, exception |-> NoPayload, errorHash |-> 0, projectRepr |-> "",
   gid |-> 0, error |-> NoError,
   \* history, for the properties
   call |-> 0, fromCache |-> FALSE, storeGid |-> 0, resolved |-> {},
   preErrors |-> <<>>, preInstances |-> <<>>]

AllIdle == \A w \in Workers : pc[w] = "idle"

\* a handler may start: always when requests are served concurrently, only
\* when no other is running when they are served one at a time
MayStart == ~sequential \/ AllIdle

\* In the runs with fair scheduling no delivery is held back: a report
\* that does not fail is delivered to each request slot at most once.
ReportLimit ==
  IF inputs = LiveInputs THEN MaxLiveReports
  ELSE IF inputs = QueryInputs THEN MaxQueryReports
  ELSE IF sequential THEN MaxSeqReports ELSE MaxReports
DeliveryLimit ==
  IF inputs = LiveInputs THEN Cardinality(Workers) * MaxLiveReports
  ELSE IF inputs = QueryInputs THEN MaxQueryDeliveries
  ELSE IF sequential THEN MaxSeqDeliveries ELSE MaxDeliveries

\* the request slots are interchangeable: a request takes the first free one
FirstFree(w) == \A v \in Workers : v < w => pc[v] # "idle"

\* The query of getAggregatedError and its loop: the active LoggedErrorV2
\* of the project with this hash, in key order; the first whose normalized
\* backtrace equals the report's.  0: none.
StoreMatch(project, errorHash, backtraceText) ==
  LET q == {g \in DOMAIN errors :
              /\ errors[g].project = project
              /\ errors[g].hash = errorHash
              /\ errors[g].active
              /\ normalizeBacktrace(errors[g].backtrace)
                   = normalizeBacktrace(backtraceText)}
  IN IF q = {} THEN 0 ELSE CHOOSE g \in q : \A h \in q : g <= h

\* ReportPage.post: 403 unless the key is the secret key; else the payload
\* is stored as a Queue entity and a task for /reportWorker is added.
\* Served one at a time, a report is posted once the tasks before it have
\* been delivered.
ReportPost(key, body) ==
  /\ MayStart
  /\ sequential => fresh = {}
  /\ posted < ReportLimit
  /\ IF key # SECRET_KEY
     THEN UNCHANGED vars
     ELSE LET k == posted + 1
          IN /\ queue' = [x \in DOMAIN queue \cup {k} |->
                            IF x = k THEN body ELSE queue[x]]
             /\ taskq' = taskq \cup {k}
             /\ fresh' = fresh \cup {k}
             /\ posted' = k
             /\ response' = NoResponse
             /\ UNCHANGED <<sequential, inputs, projects, errors, instances,
                            cache, pc, loc, deliveries, resolves, calls,
                            written, skipped>>

\* The mutant of Deliver: no "if not task: return"; a missing record is
\* taken as an empty report and the request goes on.
DeliverUnchecked(w, k) ==
  /\ MayStart
  /\ pc[w] = "idle"
  /\ FirstFree(w)
  /\ k \in taskq
  /\ deliveries < DeliveryLimit
  /\ deliveries' = deliveries + 1
  /\ fresh' = fresh \ {k}
  /\ response' = NoResponse
  /\ pc' = [pc EXCEPT ![w] = "lookup"]
  /\ loc' = [loc EXCEPT ![w] =
               [IdleLoc EXCEPT
                  !.task = k,
                  !.exception = IF k \in DOMAIN queue THEN queue[k] ELSE NoPayload]]
  /\ UNCHANGED <<sequential, inputs, queue, taskq, posted, projects, errors,
                 instances, cache, resolves, calls, written, skipped>>

\* ReportWorker.post, up to the first datastore call of putException:
\* Queue.get(key); return when the record is gone (the task is then
\* acknowledged); json.loads and the reads of the fields, which raise for a
\* malformed report (the task stays queued and is retried); generateHash.
Deliver(w, k) ==
  /\ MayStart
  /\ pc[w] = "idle"
  /\ FirstFree(w)
  /\ k \in taskq
  /\ fresh' = fresh \ {k}
  /\ response' = NoResponse
  /\ UNCHANGED <<sequential, inputs, queue, posted, projects, errors,
                 instances, cache, resolves, written>>
  /\ IF k \notin DOMAIN queue
     THEN /\ taskq' = taskq \ {k}
          /\ skipped' = skipped \cup {k}
          /\ UNCHANGED <<pc, loc, calls, deliveries>>
     ELSE IF FailsEarly(queue[k])
     THEN UNCHANGED <<taskq, skipped, pc, loc, calls, deliveries>>
     ELSE LET exception == queue[k]
              errorHash == generateHash(exception.type, exception.backtrace)
          IN /\ deliveries < DeliveryLimit
             /\ deliveries' = deliveries + 1
             /\ pc' = [pc EXCEPT ![w] = "lookup"]
             /\ calls' = IF sequential
                         THEN Append(calls,
                                [project |-> exception.project,
                                 type |-> exception.type,
                                 trace |-> normalizeBacktrace(exception.backtrace),
                                 hash |-> errorHash,
                                 completed |-> FALSE])
                         ELSE calls
             /\ loc' = [loc EXCEPT ![w] =
                          [IdleLoc EXCEPT
                             !.task = k,
                             !.exception = exception,
                             !.errorHash = errorHash,
                             !.call = IF sequential THEN Len(calls) + 1 ELSE 0,
                             !.resolved = {g \in DOMAIN errors : ~errors[g].active},
                             !.preErrors = IF sequential THEN errors ELSE <<>>,
                             !.preInstances = IF sequential THEN instances ELSE <<>>]]
             /\ UNCHANGED <<taskq, skipped>>

\* The texts str(project) can be in this request: the address of the new
\* Project object is one an earlier request's object had, or a new one.
\* (Which of the unused addresses is the new one makes no difference.)
ReprsInUse ==
  {x[1] : x \in DOMAIN cache}
  \cup {loc[w].projectRepr : w \in {v \in Workers : pc[v] # "idle"}}

PossibleReprs ==
  {ProjectReprs[i] : i \in {j \in DOMAIN ProjectReprs :
                              \A h \in 1..(j - 1) : ProjectReprs[h] \in ReprsInUse}}

\* getAggregatedError: getProject (get_or_insert; nothing sets the
\* 'project:<name>' memcache key, so a new Project object every time), then
\* memcache.get(key).  A hit is taken as the error without a look at its
\* backtrace or at the datastore.
Lookup(w) ==
  /\ pc[w] = "lookup"
  /\ \E repr \in PossibleReprs :
       LET key == AggregateKey(repr, loc[w].errorHash)
           hit == key \in DOMAIN cache
       IN /\ projects' = projects \cup {loc[w].exception.project}
          /\ loc' = [loc EXCEPT
                       ![w].projectRepr = repr,
                       ![w].fromCache = hit,
                       ![w].gid = IF hit THEN cache[key].gid ELSE 0,
                       ![w].error = IF hit THEN cache[key].error ELSE NoError,
                       ![w].storeGid =
                          IF hit
                          THEN StoreMatch(loc[w].exception.project,
                                          loc[w].errorHash,
                                          loc[w].exception.backtrace)
                          ELSE 0]
          /\ pc' = [pc EXCEPT ![w] = IF hit THEN "merge_put" ELSE "query"]
  /\ UNCHANGED <<response, sequential, inputs, queue, taskq, posted, fresh, errors,
                 instances, cache, deliveries, resolves, calls, written,
                 skipped>>

\* getAggregatedError on a cache miss: the datastore query and its loop.
Query(w) ==
  /\ pc[w] = "query"
  /\ LET g == StoreMatch(loc[w].exception.project, loc[w].errorHash,
                         loc[w].exception.backtrace)
     IN /\ loc' = [loc EXCEPT
                     ![w].gid = g,
                     ![w].error = IF g = 0 THEN NoError ELSE errors[g]]
        /\ pc' = [pc EXCEPT ![w] = IF g = 0 THEN "create_put" ELSE "merge_put"]
  /\ UNCHANGED <<response, sequential, inputs, queue, taskq, posted, fresh, projects, errors,
                 instances, cache, deliveries, resolves, calls, written,
                 skipped>>

\* getAggregatedError, "if error": the update of the copy and error.put(),
\* which writes the whole entity.
MergePut(w) ==
  /\ pc[w] = "merge_put"
  /\ LET updated == MergeUpdate(loc[w].error, loc[w].exception)
     IN /\ errors' = [errors EXCEPT ![loc[w].gid] = updated]
        /\ loc' = [loc EXCEPT ![w].error = updated]
  /\ pc' = [pc EXCEPT ![w] = "cache_set"]
  /\ UNCHANGED <<response, sequential, inputs, queue, taskq, posted, fresh, projects,
                 instances, cache, deliveries, resolves, calls, written,
                 skipped>>

\* getAggregatedError: memcache.set(key, db.model_to_protobuf(error))
CacheSet(w) ==
  /\ pc[w] = "cache_set"
  /\ LET key == AggregateKey(loc[w].projectRepr, loc[w].errorHash)
     IN cache' = [x \in DOMAIN cache \cup {key} |->
                    IF x = key THEN Serialized(loc[w].gid, loc[w].error)
                    ELSE cache[x]]
  /\ pc' = [pc EXCEPT ![w] = "put_instance"]
  /\ UNCHANGED <<response, sequential, inputs, queue, taskq, posted, fresh, projects, errors,
                 instances, loc, deliveries, resolves, calls, written,
                 skipped>>

\* putException, "if not error": a new LoggedErrorV2 under the project and
\* its put(); memcache is not written.
CreatePut(w) ==
  /\ pc[w] = "create_put"
  /\ LET created == NewError(loc[w].exception, loc[w].errorHash)
     IN /\ errors' = Append(errors, created)
        /\ loc' = [loc EXCEPT ![w].gid = Len(errors) + 1, ![w].error = created]
  /\ projects' = projects \cup {loc[w].exception.project}
  /\ pc' = [pc EXCEPT ![w] = "put_instance"]
  /\ UNCHANGED <<response, sequential, inputs, queue, taskq, posted, fresh, instances, cache,
                 deliveries, resolves, calls, written, skipped>>

\* The mutant of PutInstance: the ValueError is swallowed and the request
\* goes on to task.delete().
PutInstanceSwallowed(w) ==
  /\ pc[w] = "put_instance"
  /\ IF FailsOnUserId(loc[w].exception)
     THEN UNCHANGED <<instances, written, calls>>
     ELSE /\ instances' = Append(instances,
                                 NewInstance(loc[w].exception, loc[w].gid))
          /\ written' = written \cup {loc[w].task}
          /\ calls' = IF loc[w].call = 0 THEN calls
                      ELSE [calls EXCEPT ![loc[w].call].completed = TRUE]
  /\ pc' = [pc EXCEPT ![w] = "delete_task"]
  /\ UNCHANGED <<response, sequential, inputs, queue, taskq, posted, fresh, projects,
                 errors, cache, loc, deliveries, resolves, skipped>>

\* putException: the LoggedErrorInstanceV2 of the report.  int() of the
\* context's userId raises before instance.put() when it is no numeral.
PutInstance(w) ==
  /\ pc[w] = "put_instance"
  /\ IF FailsOnUserId(loc[w].exception)
     THEN /\ pc' = [pc EXCEPT ![w] = "failed"]
          /\ UNCHANGED <<instances, written, calls>>
     ELSE /\ instances' = Append(instances,
                                 NewInstance(loc[w].exception, loc[w].gid))
          /\ written' = written \cup {loc[w].task}
          /\ calls' = IF loc[w].call = 0 THEN calls
                      ELSE [calls EXCEPT ![loc[w].call].completed = TRUE]
          /\ pc' = [pc EXCEPT ![w] = "delete_task"]
  /\ UNCHANGED <<response, sequential, inputs, queue, taskq, posted, fresh, projects, errors,
                 cache, loc, deliveries, resolves, skipped>>

\* The mutant of DeleteTask: the Queue record is left.
DeleteTaskSkipped(w) ==
  /\ pc[w] = "delete_task"
  /\ pc' = [pc EXCEPT ![w] = "respond"]
  /\ UNCHANGED <<response, sequential, inputs, queue, taskq, posted, fresh,
                 projects, errors, instances, cache, loc, deliveries, resolves,
                 calls, written, skipped>>

\* ReportWorker.post: task.delete()
DeleteTask(w) ==
  /\ pc[w] = "delete_task"
  /\ queue' = [x \in DOMAIN queue \ {loc[w].task} |-> queue[x]]
  /\ pc' = [pc EXCEPT ![w] = "respond"]
  /\ UNCHANGED <<response, sequential, inputs, taskq, posted, fresh, projects, errors,
                 instances, cache, loc, deliveries, resolves, calls, written,
                 skipped>>

\* ReportWorker.post returns: the 200 response acknowledges the task.  Until
\* then the push queue, which delivers at least once, may deliver the task
\* to another request.
Respond(w) ==
  /\ pc[w] = "respond"
  /\ taskq' = taskq \ {loc[w].task}
  /\ pc' = [pc EXCEPT ![w] = "idle"]
  /\ loc' = [loc EXCEPT ![w] = IdleLoc]
  /\ UNCHANGED <<response, sequential, inputs, queue, posted, fresh, projects, errors,
                 instances, cache, deliveries, resolves, calls, written,
                 skipped>>

\* The exception leaves ReportWorker.post: a 500 response; the Queue record
\* and the task stay, and the push queue retries.
Fail(w) ==
  /\ pc[w] = "failed"
  /\ pc' = [pc EXCEPT ![w] = "idle"]
  /\ loc' = [loc EXCEPT ![w] = IdleLoc]
  /\ UNCHANGED <<response, sequential, inputs, queue, taskq, posted, fresh, projects, errors,
                 instances, cache, deliveries, resolves, calls, written,
                 skipped>>

\* ResolvePage.doAuthenticatedGet: active = False, put(), and
\* memcache.delete of the key built from the project's name.
Resolve(g) ==
  /\ MayStart
  /\ resolves < MaxResolves
  /\ g \in DOMAIN errors
  /\ resolves' = resolves + 1
  /\ response' = NoResponse
  /\ errors' = [errors EXCEPT ![g].active = FALSE]
  /\ cache' = [x \in DOMAIN cache \ {ResolveKey(errors[g])} |-> cache[x]]
  /\ UNCHANGED <<sequential, inputs, queue, taskq, posted, fresh, projects,
                 instances, pc, loc, deliveries, calls, written, skipped>>

----------------------------------------------------------------------------
(* The pages that read the datastore: ListPage and StatPage.  A group is    *)
(* named by its index in errors, an occurrence by its index in instances.   *)

INSTANCE_FILTERS == {"environment", "server", "affectedUser"}

INTEGER_FILTERS == {"affectedUser"}

\* the query parameters of a request: keys is the set of parameters given
Request(keys, project, environment, server, affectedUser, page) ==
  [keys |-> keys, project |-> project, environment |-> environment,
   server |-> server, affectedUser |-> affectedUser, page |-> page]

\* getFilters: the parameters that are filters
getFilters(request) ==
  [request EXCEPT !.keys = request.keys \cap (INSTANCE_FILTERS \cup {"project"})]

\* filterData raises ValueError: int(value) of an integer filter
FilterRaises(filters) ==
  \E key \in filters.keys \cap INTEGER_FILTERS : ~IsIntText(filters[key])

\* filterData for every instance filter: equality on the property
Matches(instance, filters) ==
  /\ "environment" \in filters.keys => instance.environment = filters.environment
  /\ "server" \in filters.keys => instance.server = filters.server
  /\ "affectedUser" \in filters.keys
       => ParseInt(filters.affectedUser) \in instance.affectedUser

\* order('-date') of a set of occurrences; equal dates in key order
RECURSIVE OrderByDate(_)
OrderByDate(S) ==
  IF S = {} THEN <<>>
  ELSE LET first == CHOOSE i \in S : \A j \in S :
                      \/ instances[i].date > instances[j].date
                      \/ instances[i].date = instances[j].date /\ i <= j
       IN <<first>> \o OrderByDate(S \ {first})

\* getInstances(filters, parent); parent 0: of any group
getInstances(filters, parent) ==
  OrderByDate({i \in DOMAIN instances :
                 /\ parent # 0 => instances[i].parent = parent
                 /\ Matches(instances[i], filters)})

\* order('-lastOccurrence') of a set of groups; equal values in key order
RECURSIVE OrderByLastOccurrence(_)
OrderByLastOccurrence(S) ==
  IF S = {} THEN <<>>
  ELSE LET first == CHOOSE g \in S : \A h \in S :
                      \/ errors[g].lastOccurrence > errors[h].lastOccurrence
                      \/ errors[g].lastOccurrence = errors[h].lastOccurrence /\ g <= h
       IN <<first>> \o OrderByLastOccurrence(S \ {first})

\* list(a set): the elements once each, in an order the code does not choose
RECURSIVE ListOfSet(_)
ListOfSet(S) ==
  IF S = {} THEN <<>>
  ELSE LET x == CHOOSE y \in S : TRUE IN <<x>> \o ListOfSet(S \ {x})

\* a LoggedErrorV2 as the template gets it: the entity with its key
EntityView(g) ==
  [key |-> g, project |-> errors[g].project, type |-> errors[g].type,
   backtrace |-> errors[g].backtrace, hash |-> errors[g].hash,
   active |-> errors[g].active, count |-> errors[g].count,
   level |-> errors[g].level,
   firstOccurrence |-> errors[g].firstOccurrence,
   lastOccurrence |-> errors[g].lastOccurrence,
   lastMessage |-> errors[g].lastMessage,
   environments |-> errors[g].environments, servers |-> errors[g].servers]

\* The mutant of ErrorDict: lastOccurrence, environments and servers are
\* left as stored.
ErrorDictStored(g, bucket) ==
  [EntityView(g) EXCEPT !.count = Len(bucket)]

\* filterErrors: the errorDict of a group whose occurrences among those
\* that match are bucket (in the order of getInstances)
ErrorDict(g, bucket) ==
  [EntityView(g) EXCEPT
     !.count = Len(bucket),
     !.lastOccurrence = instances[Head(OrderByDate(Range(bucket)))].date,
     !.environments = ListOfSet({instances[i].environment : i \in Range(bucket)}),
     !.servers = ListOfSet({instances[i].server : i \in Range(bucket)})]

\* The mutant of filterErrors: the bucket of a group holds the matching
\* occurrences of every group.
filterErrorsUnbucketed(errs, instanceFilters) ==
  LET matching == getInstances(instanceFilters, 0)
      kept == SelectSeq(errs, LAMBDA g : matching # <<>>)
  IN [n \in 1..Len(kept) |-> ErrorDict(kept[n], matching)]

\* filterErrors: the matching occurrences are bucketed by parent; the
\* groups, in their order, that have some yield an errorDict.
filterErrors(errs, instanceFilters) ==
  LET matching == getInstances(instanceFilters, 0)
      instanceMap(g) == SelectSeq(matching, LAMBDA i : instances[i].parent = g)
      kept == SelectSeq(errs, LAMBDA g : instanceMap(g) # <<>>)
  IN [n \in 1..Len(kept) |-> ErrorDict(kept[n], instanceMap(kept[n]))]

\* The mutant of getErrors: no order('-lastOccurrence'); key order.
getErrorsUnordered(filters, limit, offset) ==
  LET scope == {g \in DOMAIN errors :
                  /\ errors[g].active
                  /\ "project" \in filters.keys => errors[g].project = filters.project}
      errs == SelectSeq([g \in DOMAIN errors |-> g], LAMBDA g : g \in scope)
  IN IF filters.keys \cap INSTANCE_FILTERS # {}
     THEN Slice(filterErrors(errs, filters), offset, offset + limit)
     ELSE Slice([n \in 1..Len(errs) |-> EntityView(errs[n])], offset, offset + limit)

\* getErrors: the active groups, of the project when one is given, by
\* lastOccurrence descending; through filterErrors when an instance filter
\* is given; limit of them from offset on.
getErrors(filters, limit, offset) ==
  LET scope == {g \in DOMAIN errors :
                  /\ errors[g].active
                  /\ "project" \in filters.keys => errors[g].project = filters.project}
      errs == OrderByLastOccurrence(scope)
  IN IF filters.keys \cap INSTANCE_FILTERS # {}
     THEN Slice(filterErrors(errs, filters), offset, offset + limit)
     ELSE Slice([n \in 1..Len(errs) |-> EntityView(errs[n])], offset, offset + limit)

\* A page is requested once the reports posted have been delivered and the
\* answer of the last page was taken: pages requested one after the other
\* read the same groups and occurrences.
MayRead == MayStart /\ fresh = {} /\ response = NoResponse

\* ListPage.doAuthenticatedGet for a logged-in user.  getProject inserts
\* the project of a project filter; an affectedUser that is no numeral
\* raises in filterData.
ListGet(request) ==
  LET filters == getFilters(request)
      found == getErrors(filters, ListLimit, request.page * PageSize)
  IN /\ MayRead
     /\ projects' = IF "project" \in filters.keys
                    THEN projects \cup {filters.project} ELSE projects
     /\ response' =
          IF filters.keys \cap INSTANCE_FILTERS # {} /\ FilterRaises(filters)
          THEN [NoResponse EXCEPT !.page = "list", !.status = 500,
                                  !.request = request]
          ELSE [NoResponse EXCEPT !.page = "list", !.status = 200,
                                  !.request = request,
                                  !.views = Take(found, PageSize),
                                  !.hasMore = (Len(found) = ListLimit)]
     /\ UNCHANGED <<sequential, inputs, queue, taskq, posted, fresh, errors,
                    instances, cache, pc, loc, deliveries, resolves, calls,
                    written, skipped>>

\* The mutant of StatCount: timedelta(seconds = int(minutes)).
StatCountSeconds(project, minutes, now) ==
  Cardinality({i \in DOMAIN instances :
                 /\ project # "" => errors[instances[i].parent].project = project
                 /\ instances[i].date >= now - ParseInt(minutes)})

\* the occurrences StatPage counts for one of the minutes at time now
StatCount(project, minutes, now) ==
  Cardinality({i \in DOMAIN instances :
                 /\ project # "" => errors[instances[i].parent].project = project
                 /\ instances[i].date >= now - SecondsPerMinute * ParseInt(minutes)})

\* The mutant of StatBody: the counts in ascending order.
StatBodySorted(project, minutes, now) ==
  LET tokens == Split(minutes)
      counts == [n \in 1..Len(tokens) |-> StatCount(project, tokens[n], now)]
      least(n) == CHOOSE c \in Range(counts) :
                    Cardinality({m \in 1..Len(counts) : counts[m] < c}) < n
                    /\ Cardinality({m \in 1..Len(counts) : counts[m] <= c}) >= n
  IN Join([n \in 1..Len(tokens) |-> Str(least(n))])

\* StatPage.get: the text it writes, one count for each of the minutes
StatBody(project, minutes, now) ==
  LET tokens == Split(minutes)
  IN Join([n \in 1..Len(tokens) |-> Str(StatCount(project, tokens[n], now))])

\* StatPage.get: 403 unless the key is the secret key; getProject inserts
\* the project when one is given; int(minutes) raises for a text that is
\* no numeral, before anything is written.
StatGet(key, project, minutes, now) ==
  /\ MayRead
  /\ IF key # SECRET_KEY
     THEN /\ response' = [NoResponse EXCEPT !.page = "stats", !.status = 403]
          /\ UNCHANGED projects
     ELSE /\ projects' = IF project # "" THEN projects \cup {project} ELSE projects
          /\ response' =
               IF \E n \in 1..Len(Split(minutes)) : ~IsIntText(Split(minutes)[n])
               THEN [NoResponse EXCEPT !.page = "stats", !.status = 500,
                                       !.project = project, !.minutes = minutes,
                                       !.now = now]
               ELSE [NoResponse EXCEPT !.page = "stats", !.status = 200,
                                       !.project = project, !.minutes = minutes,
                                       !.now = now,
                                       !.body = StatBody(project, minutes, now)]
  /\ UNCHANGED <<sequential, inputs, queue, taskq, posted, fresh, errors,
                 instances, cache, pc, loc, deliveries, resolves, calls,
                 written, skipped>>

\* the requests of ListPage in the runs: filters "project", "environment",
\* "server" and "affectedUser" ("7", or "x", which is no numeral), page 0 or 1
ListRequests ==
  {Request(keys, "P", "staging", "web1", <<55>>, 0) :
     keys \in {{}, {"project"}, {"environment"}, {"affectedUser"},
               {"environment", "server"}}}
  \cup {Request({"project"}, "Q", "", "", <<>>, 0),
        Request({"affectedUser"}, "", "", "", <<120>>, 0),
        Request({"environment"}, "", "staging", "", <<>>, 1)}

\* the requests of StatPage in the runs: key, project, minutes
\* ("10 60", "60 10 5", "10 x")
TenAndSixty == <<49, 48, 32, 54, 48>>

StatRequests ==
  {<<SECRET_KEY, "", TenAndSixty>>,
   <<SECRET_KEY, "P", <<54, 48, 32, 49, 48, 32, 53>>>>,
   <<SECRET_KEY, "", <<49, 48, 32, 120>>>>,
   <<"guess", "", TenAndSixty>>}

Start ==
  /\ queue = <<>>
  /\ taskq = {}
  /\ posted = 0
  /\ fresh = {}
  /\ projects = {}
  /\ errors = <<>>
  /\ instances = <<>>
  /\ cache = <<>>
  /\ pc = [w \in Workers |-> "idle"]
  /\ loc = [w \in Workers |-> IdleLoc]
  /\ deliveries = 0
  /\ resolves = 0
  /\ calls = <<>>
  /\ written = {}
  /\ skipped = {}
  /\ response = NoResponse

Init ==
  /\ sequential = FALSE
  /\ inputs = ConcurrentInputs
  /\ Start

InitSeq ==
  /\ sequential = TRUE
  /\ inputs \in {FingerprintInputs, TimestampInputs}
  /\ Start

Next ==
  \/ \E key \in {SECRET_KEY, "guess"}, body \in inputs : ReportPost(key, body)
  \/ \E w \in Workers, k \in taskq : Deliver(w, k)
  \/ \E w \in Workers : Lookup(w)
  \/ \E w \in Workers : Query(w)
  \/ \E w \in Workers : MergePut(w)
  \/ \E w \in Workers : CacheSet(w)
  \/ \E w \in Workers : CreatePut(w)
  \/ \E w \in Workers : PutInstance(w)
  \/ \E w \in Workers : DeleteTask(w)
  \/ \E w \in Workers : Respond(w)
  \/ \E w \in Workers : Fail(w)
  \/ \E g \in DOMAIN errors : Resolve(g)

\* requests served concurrently
Spec == Init /\ [][Next]_vars

\* requests served one at a time
SeqSpec == InitSeq /\ [][Next]_vars

InitQuery ==
  /\ sequential = TRUE
  /\ inputs = QueryInputs
  /\ Start

QueryNext ==
  \/ Next
  \/ \E request \in ListRequests : ListGet(request)
  \/ \E r \in StatRequests, now \in Clock : StatGet(r[1], r[2], r[3], now)

\* requests served one at a time, ListPage and StatPage among them
QuerySpec == InitQuery /\ [][QueryNext]_vars

InitLive ==
  /\ sequential = FALSE
  /\ inputs = LiveInputs
  /\ Start

\* The steps of the runs with fair scheduling.  No report of LiveInputs
\* makes int() raise, so no request reaches "failed".
LiveNext ==
  \/ \E key \in {SECRET_KEY, "guess"}, body \in inputs : ReportPost(key, body)
  \/ \E w \in Workers, k \in taskq : Deliver(w, k)
  \/ \E w \in Workers : Lookup(w)
  \/ \E w \in Workers : Query(w)
  \/ \E w \in Workers : MergePut(w)
  \/ \E w \in Workers : CacheSet(w)
  \/ \E w \in Workers : CreatePut(w)
  \/ \E w \in Workers : PutInstance(w)
  \/ \E w \in Workers : DeleteTask(w)
  \/ \E w \in Workers : Respond(w)
  \/ \E g \in DOMAIN errors : Resolve(g)

\* a request that has started goes on to its end
Runs(w) ==
  \/ Lookup(w) \/ Query(w) \/ MergePut(w) \/ CacheSet(w) \/ CreatePut(w)
  \/ PutInstance(w) \/ DeleteTask(w) \/ Respond(w)

\* Requests served concurrently; every request that has started goes on,
\* and the push queue goes on delivering each task it holds.
LiveSpec ==
  /\ InitLive
  /\ [][LiveNext]_vars
  /\ \A w \in Workers : WF_vars(Runs(w))
  /\ \A k \in 1..MaxLiveReports : WF_vars(\E w \in Workers : Deliver(w, k))

----------------------------------------------------------------------------
(* Properties. *)

\* the request has resolved its report to the group loc[w].gid and written it
HasPut(w) ==
  pc[w] \in {"cache_set", "put_instance", "delete_task", "respond", "failed"}

\* C1: a putException that starts after resolve(g), for a report of g's
\* project and fingerprint, neither writes g nor attaches its occurrence to
\* g; g stays inactive and a new group takes the report.
C1_ResolvedGroupNotRevived ==
  \A w \in Workers :
    HasPut(w) =>
      \A g \in loc[w].resolved :
        (/\ errors[g].project = loc[w].exception.project
         /\ errors[g].hash = loc[w].errorHash)
        => (loc[w].gid # g /\ ~errors[g].active)

\* C2: putException never merges a report into a group whose normalized
\* backtrace differs from the report's, whether memcache or the datastore
\* answered the lookup.
C2_MergeOnlyEqualBacktrace ==
  \A w \in Workers :
    pc[w] = "merge_put" =>
      normalizeBacktrace(errors[loc[w].gid].backtrace)
        = normalizeBacktrace(loc[w].exception.backtrace)

\* the calls of putException for a project and a hash
CallsOf(project, errorHash) ==
  {i \in DOMAIN calls :
     calls[i].project = project /\ calls[i].hash = errorHash}

\* C3: when a project has received exactly two reports of a fingerprint,
\* both of the same type and normalized backtrace, putException has
\* completed for one and then the other, no later call has started and
\* nothing was resolved, the project has exactly one active group for them,
\* of count 2.
C3_TwoReportsOneGroup ==
  \A i \in DOMAIN calls : \A j \in DOMAIN calls :
    (/\ i < j
     /\ j = Len(calls)
     /\ CallsOf(calls[i].project, calls[i].hash) = {i, j}
     /\ calls[i].type = calls[j].type
     /\ calls[i].trace = calls[j].trace
     /\ calls[i].completed
     /\ calls[j].completed
     /\ resolves = 0)
    => LET groups == {g \in DOMAIN errors :
                        /\ errors[g].project = calls[i].project
                        /\ errors[g].active
                        /\ errors[g].hash = calls[i].hash
                        /\ normalizeBacktrace(errors[g].backtrace) = calls[i].trace}
       IN /\ Cardinality(groups) = 1
          /\ \A g \in groups : errors[g].count = 2

\* C4: when putException fails for a malformed report, nothing was
\* persisted: the groups and the occurrences are those of its start.
C4_FailureLeavesNoTrace ==
  \A w \in Workers :
    pc[w] = "failed" =>
      /\ errors = loc[w].preErrors
      /\ instances = loc[w].preInstances

\* C5: the put of a merge whose report is older than the group's stored
\* lastOccurrence leaves lastOccurrence, backtrace and lastMessage as they
\* were and adds one to count; the occurrence is then put under that group.
C5_OlderReportKeepsLatest ==
  [][\A w \in Workers :
       /\ (/\ pc[w] = "merge_put"
           /\ pc'[w] = "cache_set"
           /\ loc[w].exception.timestamp.val < errors[loc[w].gid].lastOccurrence)
          => (/\ errors'[loc[w].gid].lastOccurrence = errors[loc[w].gid].lastOccurrence
              /\ errors'[loc[w].gid].backtrace = errors[loc[w].gid].backtrace
              /\ errors'[loc[w].gid].lastMessage = errors[loc[w].gid].lastMessage
              /\ errors'[loc[w].gid].count = errors[loc[w].gid].count + 1)
       /\ (pc[w] = "put_instance" /\ pc'[w] = "delete_task")
          => (/\ Len(instances') = Len(instances) + 1
              /\ instances'[Len(instances')].parent = loc[w].gid)]_vars

\* C6: firstOccurrence <= lastOccurrence for every stored group and every
\* snapshot in memcache.
C6_FirstNotAfterLast ==
  /\ \A g \in DOMAIN errors :
       errors[g].firstOccurrence <= errors[g].lastOccurrence
  /\ \A x \in DOMAIN cache :
       cache[x].error.firstOccurrence <= cache[x].error.lastOccurrence

\* C6's case: a group that two requests wrote in turn, merged from reports
\* of different timestamps, with a snapshot in memcache.
C6_Witness ==
  \E g \in DOMAIN errors :
    /\ errors[g].count >= 2
    /\ errors[g].firstOccurrence < errors[g].lastOccurrence
    /\ \E x \in DOMAIN cache : cache[x].gid = g
    /\ \E w \in Workers : pc[w] = "merge_put" /\ loc[w].gid = g

\* C7: memcache never changes what putException does: the entity a hit
\* supplies is the entity the datastore query would have supplied.
C7_CacheHitAgreesWithStore ==
  \A w \in Workers :
    (pc[w] = "merge_put" /\ loc[w].fromCache) =>
      /\ loc[w].storeGid = loc[w].gid
      /\ errors[loc[w].gid] = loc[w].error

\* C8: a Queue record that is gone belongs to a report whose occurrence has
\* been put.
C8_DeleteAfterWrites ==
  \A k \in 1..posted : k \notin DOMAIN queue => k \in written

\* C8's case: a record was deleted while another request, delivered the same
\* task, is still at work, and a failed request has left its record behind.
C8_Witness ==
  /\ \E k \in 1..posted : k \notin DOMAIN queue
  /\ \E k \in DOMAIN queue : k \in taskq \ fresh /\ k \notin written

\* C9: a request goes on to putException only with a task whose Queue
\* record it found, and the delivery of a task whose record is gone changes
\* no group, no occurrence and no memcache entry.
C9_RedeliveryIsNoOp ==
  [][/\ \A w \in Workers :
          (pc[w] = "idle" /\ pc'[w] # "idle") => loc'[w].task \in DOMAIN queue
     /\ skipped' # skipped
          => UNCHANGED <<errors, instances, cache, projects, pc>>]_vars

\* C9's case: a task was delivered after its Queue record was deleted.
C9_Witness == skipped # {}

\* C10: while a group stays active its stored count never decreases and its
\* stored environments and servers never lose an element.
C10_ActiveGroupOnlyGrows ==
  [][\A g \in DOMAIN errors :
       (errors[g].active /\ errors'[g].active) =>
         /\ errors'[g].count >= errors[g].count
         /\ Range(errors[g].environments) \subseteq Range(errors'[g].environments)
         /\ Range(errors[g].servers) \subseteq Range(errors'[g].servers)]_vars

\* C11: the stored lastOccurrence of a group never moves backwards: no
\* step replaces the lastOccurrence (and with it the backtrace and the
\* lastMessage) written from a newer report by an older report's.
C11_LastOccurrenceNeverBackwards ==
  [][\A g \in DOMAIN errors :
       errors'[g].lastOccurrence >= errors[g].lastOccurrence]_vars

\* C15: the group a report is merged into, and that its occurrence is put
\* under, belongs to the report's project.
C15_MergeWithinProject ==
  \A w \in Workers :
    (pc[w] = "merge_put" \/ HasPut(w)) =>
      errors[loc[w].gid].project = loc[w].exception.project

\* every putException call so far has run to completion
AllCompleted ==
  /\ AllIdle
  /\ \A i \in DOMAIN calls : calls[i].completed

\* C13: after n valid reports of one project, type and normalized backtrace
\* have been aggregated one at a time (and nothing else was reported or
\* resolved), there is one group for them, with count n, firstOccurrence
\* the least and lastOccurrence the greatest of their timestamps, and the
\* environments and servers of the reports.  The occurrences, one per
\* report, hold the reports' timestamps, environments and servers.
C13_GroupSummarizesReports ==
  (/\ AllCompleted
   /\ calls # <<>>
   /\ resolves = 0
   /\ Len(instances) = Len(calls)
   /\ \A i \in DOMAIN calls :
        /\ calls[i].project = calls[1].project
        /\ calls[i].type = calls[1].type
        /\ calls[i].trace = calls[1].trace)
  => LET dates == {instances[i].date : i \in DOMAIN instances}
     IN /\ Len(errors) = 1
        /\ errors[1].count = Len(calls)
        /\ \A d \in dates : errors[1].firstOccurrence <= d
        /\ errors[1].firstOccurrence \in dates
        /\ \A d \in dates : d <= errors[1].lastOccurrence
        /\ errors[1].lastOccurrence \in dates
        /\ Range(errors[1].environments)
             = {instances[i].environment : i \in DOMAIN instances}
        /\ Range(errors[1].servers)
             = {instances[i].server : i \in DOMAIN instances}

\* C20: when every putException call so far has run to completion, one at
\* a time, the count of each group is the number of occurrences under it
\* and there is one occurrence per call.
C20_CountIsNumberOfOccurrences ==
  AllCompleted =>
    /\ Len(instances) = Len(calls)
    /\ \A g \in DOMAIN errors :
         errors[g].count
           = Cardinality({i \in DOMAIN instances : instances[i].parent = g})

\* the occurrence meets the occurrence-level filters of the request
OccurrenceMeets(i, request) ==
  /\ "environment" \in request.keys
       => instances[i].environment = request.environment
  /\ "server" \in request.keys => instances[i].server = request.server
  /\ "affectedUser" \in request.keys
       => instances[i].affectedUser = {ParseInt(request.affectedUser)}

\* the occurrences of a group that meet the filters of the request
Meeting(g, request) ==
  {i \in DOMAIN instances : instances[i].parent = g /\ OccurrenceMeets(i, request)}

\* ListPage has answered a request with an occurrence-level filter, page 0
FilteredAnswer ==
  /\ response.page = "list"
  /\ response.status = 200
  /\ response.request.page = 0
  /\ response.request.keys \cap INSTANCE_FILTERS # {}

\* C12: with an occurrence-level filter, the groups listed are the active
\* groups in scope that have an occurrence meeting every filter, each once,
\* and the count of each is the number of its occurrences that do.
C12_FilteredListIsExact ==
  FilteredAnswer =>
    LET request == response.request
        views == response.views
        expected == {g \in DOMAIN errors :
                       /\ errors[g].active
                       /\ "project" \in request.keys
                            => errors[g].project = request.project
                       /\ Meeting(g, request) # {}}
    IN /\ {views[n].key : n \in DOMAIN views} = expected
       /\ Len(views) = Cardinality(expected)
       /\ \A n \in DOMAIN views :
            views[n].count = Cardinality(Meeting(views[n].key, request))

\* C12's case: a listed group has two matching occurrences of one date,
\* and an active group in scope is left out.
C12_Witness ==
  /\ FilteredAnswer
  /\ \E n \in DOMAIN response.views :
       \E i, j \in Meeting(response.views[n].key, response.request) :
         i # j /\ instances[i].date = instances[j].date
  /\ \E g \in DOMAIN errors :
       /\ errors[g].active
       /\ \A n \in DOMAIN response.views : response.views[n].key # g

\* StatPage has answered "10 60" for all projects at a time when the
\* occurrences are three, 5, 30 and 90 minutes old
StatExample ==
  /\ response.page = "stats"
  /\ response.status = 200
  /\ response.project = ""
  /\ response.minutes = TenAndSixty
  /\ Len(instances) = 3
  /\ {response.now - instances[i].date : i \in DOMAIN instances}
       = {5 * SecondsPerMinute, 30 * SecondsPerMinute, 90 * SecondsPerMinute}

\* C14 as stated: the answer to "10 60" is "2 3".
C14_StatExampleTwoThree ==
  StatExample => response.body = <<50, 32, 51>>

\* C14 amended: the answer to "10 60" is "1 2".
C14_StatExampleOneTwo ==
  StatExample => response.body = <<49, 32, 50>>

\* C14's case: StatPage has answered in the state of the example.
C14_Witness == StatExample

\* C16 as stated: the views listed are in descending order of the
\* lastOccurrence they report, with and without occurrence-level filters.
C16_DescendingByReported ==
  (response.page = "list" /\ response.status = 200) =>
    \A n \in DOMAIN response.views : \A m \in DOMAIN response.views :
      n < m => response.views[n].lastOccurrence >= response.views[m].lastOccurrence

\* C16 amended: the views listed are in descending order of the stored
\* lastOccurrence of their groups; without an occurrence-level filter that
\* is the lastOccurrence they report.
C16_DescendingByStored ==
  (response.page = "list" /\ response.status = 200) =>
    LET views == response.views
    IN /\ \A n \in DOMAIN views : \A m \in DOMAIN views :
            n < m => errors[views[n].key].lastOccurrence
                       >= errors[views[m].key].lastOccurrence
       /\ response.request.keys \cap INSTANCE_FILTERS = {}
            => \A n \in DOMAIN views :
                 views[n].lastOccurrence = errors[views[n].key].lastOccurrence

\* C16's case: a filtered list of two groups whose stored lastOccurrence
\* differ and whose reported lastOccurrence are in the other order.
C16_Witness ==
  /\ FilteredAnswer
  /\ Len(response.views) >= 2
  /\ errors[response.views[1].key].lastOccurrence
       > errors[response.views[2].key].lastOccurrence
  /\ response.views[1].lastOccurrence < response.views[2].lastOccurrence

\* C17: when ListPage answers a request with an occurrence-level filter,
\* each view's lastOccurrence is the greatest date of the group's matching
\* occurrences, its environments and servers are those of the matching
\* occurrences, each once, and no stored group or occurrence is changed.
C17_ViewFromMatchingOccurrences ==
  [][(response' # response /\ response'.page = "list") =>
       /\ errors' = errors
       /\ instances' = instances
       /\ (response'.status = 200
           /\ response'.request.keys \cap INSTANCE_FILTERS # {}) =>
            \A n \in DOMAIN response'.views :
              LET view == response'.views[n]
                  meeting == Meeting(view.key, response'.request)
              IN /\ meeting # {}
                 /\ \A i \in meeting : instances[i].date <= view.lastOccurrence
                 /\ \E i \in meeting : instances[i].date = view.lastOccurrence
                 /\ Range(view.environments)
                      = {instances[i].environment : i \in meeting}
                 /\ Len(view.environments)
                      = Cardinality({instances[i].environment : i \in meeting})
                 /\ Range(view.servers) = {instances[i].server : i \in meeting}
                 /\ Len(view.servers)
                      = Cardinality({instances[i].server : i \in meeting})]_vars

\* C17's case: a view whose environments and lastOccurrence are not the
\* stored ones, the group having an occurrence that does not match.
C17_Witness ==
  /\ FilteredAnswer
  /\ \E n \in DOMAIN response.views :
       LET view == response.views[n]
       IN /\ Range(view.environments) # Range(errors[view.key].environments)
          /\ view.lastOccurrence < errors[view.key].lastOccurrence
          /\ view.count >= 2

\* C19: StatPage writes one count for each of the minutes, in their order;
\* the count for N is the number of occurrences, of the project when one
\* is given, dated at or after now minus N minutes; so the count for a
\* greater N is not smaller.
C19_StatCountsPerWindow ==
  (response.page = "stats" /\ response.status = 200) =>
    LET minutes == Split(response.minutes)
        counts == Split(response.body)
        within(N) ==
          {i \in DOMAIN instances :
             /\ response.project # ""
                  => errors[instances[i].parent].project = response.project
             /\ instances[i].date >= response.now - N * SecondsPerMinute}
    IN /\ Len(counts) = Len(minutes)
       /\ \A n \in DOMAIN minutes :
            /\ IsIntText(counts[n])
            /\ ParseInt(counts[n]) = Cardinality(within(ParseInt(minutes[n])))
       /\ \A n \in DOMAIN minutes : \A m \in DOMAIN minutes :
            ParseInt(minutes[n]) <= ParseInt(minutes[m])
              => ParseInt(counts[n]) <= ParseInt(counts[m])

\* C19's case: counts for a project, three windows not in ascending order
\* with different counts, an occurrence dated exactly at the start of a
\* window and one of another project inside it.
C19_Witness ==
  /\ response.page = "stats"
  /\ response.status = 200
  /\ response.project = "P"
  /\ Len(Split(response.body)) = 3
  /\ Split(response.body)[1] # Split(response.body)[2]
  /\ \E i \in DOMAIN instances :
       instances[i].date = response.now - 5 * SecondsPerMinute
  /\ \E i \in DOMAIN instances : errors[instances[i].parent].project = "Q"

\* the report neither lacks a required field nor has one that cannot be read
WellFormed(exception) == ~FailsEarly(exception) /\ ~FailsOnUserId(exception)

\* C18 as stated: every accepted report is eventually delivered; the
\* occurrence of a well-formed report is eventually stored and its Queue
\* record deleted; no accepted payload stays queued forever.
C18_NoPayloadQueuedForever ==
  \A k \in 1..MaxLiveReports :
    /\ (k \in fresh) ~> (k \notin fresh)
    /\ (k \in DOMAIN queue /\ WellFormed(queue[k]))
         ~> (k \in written /\ k \notin DOMAIN queue)
    /\ (k \in DOMAIN queue) ~> (k \notin DOMAIN queue)

\* C18 amended: every accepted report is eventually delivered; the
\* occurrence of a well-formed report is eventually stored and its Queue
\* record deleted; the Queue record of a report that is not well-formed
\* stays for ever.
C18_WellFormedReportIsStored ==
  \A k \in 1..MaxLiveReports :
    /\ (k \in fresh) ~> (k \notin fresh)
    /\ (k \in DOMAIN queue /\ WellFormed(queue[k]))
         ~> (k \in written /\ k \notin DOMAIN queue)
    /\ []((k \in DOMAIN queue /\ ~WellFormed(queue[k]))
            => [](k \in DOMAIN queue))

\* C18's case: the occurrence of one report is stored and its Queue record
\* deleted, while a report lacking a field has been delivered and is still
\* queued.
C18_Witness ==
  /\ \E k \in written : k \notin DOMAIN queue /\ k \notin taskq
  /\ \E k \in DOMAIN queue :
       ~WellFormed(queue[k]) /\ k \notin fresh /\ k \in taskq

====
